---- MODULE Spec2Model ----
(***************************************************************************)
(* pyletterpress: a rack of letters, a dictionary file, a multiprocessing  *)
(* Pool that runs evaluator over blocks of words, and three daemon threads *)
(* (result_collector, top_words, percent_reporter) next to the main thread *)
(* that distributes the blocks, polls for completion and prints the best   *)
(* words.  Words and lines are sequences of one-character strings.         *)
(***************************************************************************)
EXTENDS FiniteSets, Integers, Sequences, TLC

VARIABLES
    lines,          \* the lines of wordsEn.txt, line ends included
    letters,        \* the rack: list of characters of sys.argv[1]
    words,          \* the loaded dictionary, sorted by length
    processes,      \* number of worker processes of Pool() (cpu count)
    pc,             \* position of the main thread
    x,              \* loop variable of the submission loop
    interruptedAt,  \* where a KeyboardInterrupt reached the main thread
    complete,       \* manager queue of progress samples
    samples,        \* history: every sample put on complete, in order
    reported,       \* history: samples logged by percent_reporter
    taskqueue,      \* chunks of map_async waiting for a worker
    worker,         \* per worker process: the chunk it is running
    results,        \* manager queue of matched words
    outcome,        \* history: what evaluator returned for each word
    holding,        \* result_collector: the item between get() and insert
    keys,           \* SortedCollection._keys of best_words
    items,          \* SortedCollection._items of best_words
    top,            \* top_words: the list last reported
    lastPoll,       \* history: what the last poll of top_words saw and did
    report,         \* the final 'Best words' line, once printed
    submitted,      \* history: the blocks handed to map_async, in order
    takenAtDone     \* history: the words the collector had taken from the
                    \* result queue when the poll set done = True

vars == <<lines, letters, words, processes, pc, x, interruptedAt, complete, samples,
          reported, taskqueue, worker, results, outcome, holding, keys,
          items, top, lastPoll, report, submitted, takenAtDone>>

----------------------------------------------------------------------------
(* Bounds of the model.  block_size and TopN stand for the 1000 and the 10 *)
(* of the source, scaled down so that several blocks and a full top list   *)
(* occur with a six-word dictionary.                                       *)
block_size == 5
TopN == 2
MaxPool == 2
MaxWordLen == 3
MaxRackLen == 3
MaxWords == 12

----------------------------------------------------------------------------
(* Sequences as Python lists *)

Min(a, b) == IF a < b THEN a ELSE b

Reverse(s) == [i \in 1..Len(s) |-> s[Len(s) + 1 - i]]

SetOf(s) == {s[i] : i \in DOMAIN s}

Count(c, s) == Cardinality({i \in DOMAIN s : s[i] = c})

\* list.index(v): 1-based position of the first occurrence
ListIndex(s, v) == CHOOSE i \in DOMAIN s : s[i] = v /\ \A j \in 1..(i - 1) : s[j] # v

\* list.pop(i) leaves the list without position i
ListPop(s, i) == SubSeq(s, 1, i - 1) \o SubSeq(s, i + 1, Len(s))

\* list.insert(i, v) with a 0-based i in 0..len
ListInsert(s, i, v) == SubSeq(s, 1, i) \o <<v>> \o SubSeq(s, i + 1, Len(s))

\* s[-n:]
Tail_n(s, n) == SubSeq(s, Len(s) - Min(n, Len(s)) + 1, Len(s))

\* variant: s[:b], the slice taken from the start of the list
Slice_from_start(s, a, b) == SubSeq(s, 1, Min(b, Len(s)))

\* variant: a slice that includes position b
Slice_inclusive(s, a, b) == SubSeq(s, a + 1, Min(b + 1, Len(s)))

\* s[a:b] with 0-based a and an end that may pass the end of the list
Slice(s, a, b) == SubSeq(s, a + 1, Min(b, Len(s)))

----------------------------------------------------------------------------
(* bisect_left as the library computes it: 0-based lo, hi *)

RECURSIVE BisectLoop(_, _, _, _)
BisectLoop(a, k, lo, hi) ==
    IF lo < hi
    THEN LET mid == (lo + hi) \div 2
         IN  IF a[mid + 1] < k THEN BisectLoop(a, k, mid + 1, hi)
                               ELSE BisectLoop(a, k, lo, mid)
    ELSE lo

\* variant: bisect_right, the position after the items of equal key
RECURSIVE BisectRightLoop(_, _, _, _)
BisectRightLoop(a, k, lo, hi) ==
    IF lo < hi
    THEN LET mid == (lo + hi) \div 2
         IN  IF k < a[mid + 1] THEN BisectRightLoop(a, k, lo, mid)
                               ELSE BisectRightLoop(a, k, mid + 1, hi)
    ELSE lo

bisect_right(a, k) == BisectRightLoop(a, k, 0, Len(a))

\* variant: the position after the last item, whatever the key
bisect_append(a, k) == Len(a)

bisect_left(a, k) == BisectLoop(a, k, 0, Len(a))

\* key=lambda word: len(word)
key(word) == Len(word)

----------------------------------------------------------------------------
(* evaluator: the list comprehension pops, from the letters list it was    *)
(* given, the first occurrence of every character of word found in it.     *)

RECURSIVE Comprehension(_, _, _, _)
Comprehension(word, i, lst, common) ==
    IF i > Len(word) THEN [common |-> common, letters |-> lst]
    ELSE IF word[i] \in SetOf(lst)
         THEN Comprehension(word, i + 1, ListPop(lst, ListIndex(lst, word[i])), common + 1)
         ELSE Comprehension(word, i + 1, lst, common)

\* variant: a membership test that takes no letter out of the list
evaluator_no_pop(word, lst) ==
    [matched |-> (\A i \in DOMAIN word : word[i] \in SetOf(lst)), letters |-> lst]

evaluator(word, lst) ==
    LET r == Comprehension(word, 1, lst, 0)
    IN  [matched |-> (r.common = Len(word)), letters |-> r.letters]

----------------------------------------------------------------------------
(* Loading the dictionary: the filter looks at the raw line (with its line *)
(* end), the set keeps the stripped, lower-cased word.                     *)

Whitespace == {" ", "\n", "\t"}

LowerOf == ("A" :> "a") @@ ("C" :> "c") @@ ("T" :> "t") @@ ("S" :> "s")

lower(word) == [i \in 1..Len(word) |->
                   IF word[i] \in DOMAIN LowerOf THEN LowerOf[word[i]] ELSE word[i]]

RECURSIVE strip(_)
strip(line) ==
    IF line = <<>> THEN line
    ELSE IF line[1] \in Whitespace THEN strip(SubSeq(line, 2, Len(line)))
    ELSE IF line[Len(line)] \in Whitespace THEN strip(SubSeq(line, 1, Len(line) - 1))
    ELSE line

LoadWords(file, rack) ==
    {lower(strip(file[i])) :
        i \in {j \in DOMAIN file : Len(file[j]) <= Len(rack) /\ Len(file[j]) > 1}}

\* sorted(words, key=len): a stable sort of the set's iteration order, which
\* is arbitrary, so any order of the set with non-decreasing lengths
RECURSIVE SortedByLen(_)
SortedByLen(S) ==
    IF S = {} THEN {<<>>}
    ELSE UNION {{<<w>> \o t : t \in SortedByLen(S \ {w})} :
                  w \in {v \in S : \A u \in S : Len(v) <= Len(u)}}

----------------------------------------------------------------------------
(* The inputs of a run: the rack of the command line and the lines of      *)
(* wordsEn.txt.                                                            *)

NL == "\n"

BigInput ==
    [rack |-> <<"c", "a", "t", "s">>,
     lines |-> << <<"a", NL>>, <<"A", "t", NL>>, <<"t", "a", NL>>, <<"a", "t", NL>>,
                  <<"t", "t", "t", NL>>, <<"a", "a", "a", NL>>,
                  <<"c", "a", "t", "s", NL>>, <<"c", "a", "t", "s">> >>]

OneMatchInput ==
    [rack |-> <<"c", "a", "t">>,
     lines |-> << <<"a", "t", NL>>, <<"t", "t", NL>>, <<"c", "a", "t", NL>> >>]

EmptyInput ==
    [rack |-> <<"c", "a", "t">>,
     lines |-> << <<NL>>, <<"c", "a", "t", NL>>, <<"t", "a", "t", "t", NL>> >>]

Inputs == {BigInput, OneMatchInput, EmptyInput}

----------------------------------------------------------------------------
(* Pool.map_async: the block is cut into chunks of                         *)
(* ceil(len(block) / (4 * processes)) argument tuples; each chunk is       *)
(* pickled as one task, so the tuples of one chunk arrive in the worker    *)
(* referring to one letters list, and each chunk has a list of its own.    *)

ChunkSize(n) ==
    (n \div (processes * 4)) + (IF n % (processes * 4) # 0 THEN 1 ELSE 0)

RECURSIVE Chunks(_, _, _)
Chunks(block, size, rack) ==
    IF block = <<>> THEN <<>>
    ELSE << [words |-> Slice(block, 0, size), letters |-> rack] >>
         \o Chunks(SubSeq(block, Min(size, Len(block)) + 1, Len(block)), size, rack)

map_async(block, rack) == Chunks(block, ChunkSize(Len(block)), rack)

Idle == [busy |-> FALSE, words |-> <<>>, letters |-> <<>>]

NoItem == [full |-> FALSE, item |-> <<>>, i |-> 0]

NoPoll == [polled |-> FALSE, test |-> <<>>, prev |-> <<>>, emitted |-> FALSE]

\* variant: the end of the block instead of its start
Sample_block_end(i, n) == [num |-> (i + block_size) * 100, den |-> n]

\* x/len(words) * 100 under true division, kept as an exact fraction
Sample(i, n) == [num |-> i * 100, den |-> n]

Running == pc \notin {"done", "crashed"}

----------------------------------------------------------------------------
(* State after the threads are started and before the submission loop *)

InitWith(file, rack, sortedWords, nproc) ==
    /\ lines = file
    /\ letters = rack
    /\ words = sortedWords
    /\ processes = nproc
    /\ pc = "put"
    /\ x = 0
    /\ interruptedAt = "none"
    /\ complete = <<>>
    /\ samples = <<>>
    /\ reported = <<>>
    /\ taskqueue = <<>>
    /\ worker = [p \in 1..nproc |-> Idle]
    /\ results = <<>>
    /\ outcome = [w \in SetOf(sortedWords) |-> "none"]
    /\ holding = NoItem
    /\ keys = <<>>
    /\ items = <<>>
    /\ top = <<>>
    /\ lastPoll = NoPoll
    /\ report = <<>>
    /\ submitted = <<>>
    /\ takenAtDone = {}

Init ==
    \E in \in Inputs, nproc \in 1..MaxPool :
        \E sw \in SortedByLen(LoadWords(in.lines, in.rack)) :
            InitWith(in.lines, in.rack, sw, nproc)

----------------------------------------------------------------------------
(* Main thread: submission loop, pool.close, completion poll, shutdown *)

\* loop head with a block left: complete.put(x/len(words) * 100)
DistributorPut ==
    /\ pc = "put"
    /\ x < Len(words)
    /\ complete' = Append(complete, Sample(x, Len(words)))
    /\ samples' = Append(samples, Sample(x, Len(words)))
    /\ pc' = "map"
    /\ UNCHANGED <<lines, submitted, takenAtDone,
                   letters, words, processes, x, interruptedAt, reported, taskqueue,
                   worker, results, outcome, holding, keys, items, top, lastPoll, report>>

\* pool.map_async(evaluator, [(word, letters, results) for word in words[x:x+block_size]])
DistributorMap ==
    /\ pc = "map"
    /\ taskqueue' = taskqueue \o map_async(Slice(words, x, x + block_size), letters)
    /\ submitted' = Append(submitted, Slice(words, x, x + block_size))
    /\ x' = x + block_size
    /\ pc' = "put"
    /\ UNCHANGED <<lines, takenAtDone,
                   letters, words, processes, interruptedAt, complete, samples, reported,
                   worker, results, outcome, holding, keys, items, top, lastPoll, report>>

\* the loop is exhausted: pool.close(), done = False, the try block is entered
PoolClose ==
    /\ pc = "put"
    /\ x >= Len(words)
    /\ pc' = "poll"
    /\ UNCHANGED <<lines, submitted, takenAtDone,
                   letters, words, processes, x, interruptedAt, complete, samples, reported,
                   taskqueue, worker, results, outcome, holding, keys, items, top, lastPoll,
                   report>>

\* len(best_words) > 1 and results.empty(): the length only grows, so the two
\* reads are one step; when either fails the thread sleeps and polls again
PollResults ==
    /\ pc = "poll"
    /\ pc' = IF Len(items) > 1 /\ results = <<>> THEN "poll_complete" ELSE "poll"
    /\ UNCHANGED <<lines, submitted, takenAtDone,
                   letters, words, processes, x, interruptedAt, complete, samples, reported,
                   taskqueue, worker, results, outcome, holding, keys, items, top, lastPoll,
                   report>>

\* what result_collector has got from the result queue so far
Taken == SetOf(items) \cup (IF holding.full THEN {holding.item} ELSE {})

\* variant: done = True without looking at the progress queue
PollComplete_ignore_progress ==
    /\ pc = "poll_complete"
    /\ pc' = "terminate"
    /\ takenAtDone' = Taken
    /\ UNCHANGED <<lines, submitted,
                   letters, words, processes, x, interruptedAt, complete, samples, reported,
                   taskqueue, worker, results, outcome, holding, keys, items, top, lastPoll,
                   report>>

\* variant: done = True while the progress queue still holds a sample
PollComplete_inverted ==
    /\ pc = "poll_complete"
    /\ pc' = IF complete # <<>> THEN "terminate" ELSE "poll"
    /\ takenAtDone' = IF complete # <<>> THEN Taken ELSE takenAtDone
    /\ UNCHANGED <<lines, submitted,
                   letters, words, processes, x, interruptedAt, complete, samples, reported,
                   taskqueue, worker, results, outcome, holding, keys, items, top, lastPoll,
                   report>>

\* ... and complete.empty(): done = True and the loop is left after the sleep
PollComplete ==
    /\ pc = "poll_complete"
    /\ pc' = IF complete = <<>> THEN "terminate" ELSE "poll"
    /\ takenAtDone' = IF complete = <<>> THEN Taken ELSE takenAtDone
    /\ UNCHANGED <<lines, submitted,
                   letters, words, processes, x, interruptedAt, complete, samples, reported,
                   taskqueue, worker, results, outcome, holding, keys, items, top, lastPoll,
                   report>>

\* pool.terminate(): queued chunks are dropped and the workers are killed
PoolTerminate ==
    /\ pc = "terminate"
    /\ taskqueue' = <<>>
    /\ worker' = [p \in DOMAIN worker |-> Idle]
    /\ pc' = "report"
    /\ UNCHANGED <<lines, submitted, takenAtDone,
                   letters, words, processes, x, interruptedAt, complete, samples, reported,
                   results, outcome, holding, keys, items, top, lastPoll, report>>

\* variant: iterating the collection forwards
ReportLine_forward(its) == its

\* log.info('Best words: {}'.format(', '.join(reversed(best_words))))
ReportLine(its) == Reverse(its)

FinalReport ==
    /\ pc = "report"
    /\ report' = ReportLine(items)
    /\ pc' = "done"
    /\ UNCHANGED <<lines, submitted, takenAtDone,
                   letters, words, processes, x, interruptedAt, complete, samples, reported,
                   taskqueue, worker, results, outcome, holding, keys, items, top, lastPoll>>

\* The orchestrator states of the design
Phase ==
    CASE pc \in {"put", "map"} -> "RUNNING"
      [] pc \in {"poll", "poll_complete"} -> "COMPLETING"
      [] pc \in {"terminate", "report"} -> "SHUTDOWN"
      [] OTHER -> "EXITED"

\* A KeyboardInterrupt is raised in the main thread.  Only the poll loop is
\* inside try/except; anywhere else the exception leaves the program.
Interrupt ==
    /\ Running
    /\ interruptedAt = "none"
    /\ interruptedAt' = Phase
    /\ pc' = IF pc \in {"poll", "poll_complete"} THEN "terminate" ELSE "crashed"
    /\ UNCHANGED <<lines, submitted, takenAtDone,
                   letters, words, processes, x, complete, samples, reported, taskqueue,
                   worker, results, outcome, holding, keys, items, top, lastPoll, report>>

----------------------------------------------------------------------------
(* Worker processes of the pool *)

WorkerTake(p) ==
    /\ Running
    /\ ~worker[p].busy
    /\ taskqueue # <<>>
    /\ worker' = [worker EXCEPT ![p] = [busy |-> TRUE, words |-> Head(taskqueue).words,
                                         letters |-> Head(taskqueue).letters]]
    /\ taskqueue' = Tail(taskqueue)
    /\ UNCHANGED <<lines, submitted, takenAtDone,
                   letters, words, processes, pc, x, interruptedAt, complete, samples,
                   reported, results, outcome, holding, keys, items, top, lastPoll, report>>

\* one call of evaluator inside map(evaluator, chunk); the letters list of the
\* chunk is left as the call's pops leave it
WorkerEval(p) ==
    /\ Running
    /\ worker[p].busy
    /\ LET word == Head(worker[p].words)
           r == evaluator(word, worker[p].letters)
           rest == Tail(worker[p].words)
       IN  /\ results' = IF r.matched THEN Append(results, word) ELSE results
           /\ outcome' = [outcome EXCEPT ![word] = IF r.matched THEN "match" ELSE "nomatch"]
           /\ worker' = [worker EXCEPT ![p] =
                            IF rest = <<>> THEN Idle
                            ELSE [busy |-> TRUE, words |-> rest, letters |-> r.letters]]
    /\ UNCHANGED <<lines, submitted, takenAtDone,
                   letters, words, processes, pc, x, interruptedAt, complete, samples,
                   reported, taskqueue, holding, keys, items, top, lastPoll, report>>

\* a call of evaluator raises: map() stops, the rest of the chunk is never
\* evaluated, and the worker goes on with the next task
WorkerRaise(p) ==
    /\ Running
    /\ worker[p].busy
    /\ outcome' = [outcome EXCEPT ![Head(worker[p].words)] = "error"]
    /\ worker' = [worker EXCEPT ![p] = Idle]
    /\ UNCHANGED <<lines, submitted, takenAtDone,
                   letters, words, processes, pc, x, interruptedAt, complete, samples,
                   reported, taskqueue, results, holding, keys, items, top, lastPoll, report>>

----------------------------------------------------------------------------
(* Daemon threads *)

\* SortedCollection.insert up to self._keys.insert(i, k); _keys is touched by
\* the collector only, so results.get(), the bisect and the key insert are one
\* step as seen by the other threads
CollectorGet ==
    /\ Running
    /\ ~holding.full
    /\ results # <<>>
    /\ LET item == Head(results)
           i == bisect_left(keys, key(item))
       IN  /\ holding' = [full |-> TRUE, item |-> item, i |-> i]
           /\ keys' = ListInsert(keys, i, key(item))
    /\ results' = Tail(results)
    /\ UNCHANGED <<lines, submitted, takenAtDone,
                   letters, words, processes, pc, x, interruptedAt, complete, samples,
                   reported, taskqueue, worker, outcome, items, top, lastPoll, report>>

\* self._items.insert(i, item)
CollectorInsert ==
    /\ Running
    /\ holding.full
    /\ items' = ListInsert(items, holding.i, holding.item)
    /\ holding' = NoItem
    /\ UNCHANGED <<lines, submitted, takenAtDone,
                   letters, words, processes, pc, x, interruptedAt, complete, samples,
                   reported, taskqueue, worker, results, outcome, keys, top, lastPoll, report>>

\* variant: 1 not in [item in top for item in test]
TopChanged_all_new(test, prev) == \A i \in DOMAIN test : test[i] \notin SetOf(prev)

\* 0 in [item in top for item in test]
TopChanged(test, prev) == \E i \in DOMAIN test : test[i] \notin SetOf(prev)

\* one round of top_words
TopWords ==
    /\ Running
    /\ IF Len(items) > 0
       THEN LET test == Reverse(Tail_n(items, TopN))
            IN  /\ top' = IF TopChanged(test, top) THEN test ELSE top
                /\ lastPoll' = [polled |-> TRUE, test |-> test, prev |-> top,
                                emitted |-> TopChanged(test, top)]
       ELSE UNCHANGED <<top, lastPoll>>
    /\ UNCHANGED <<lines, submitted, takenAtDone,
                   letters, words, processes, pc, x, interruptedAt, complete, samples,
                   reported, taskqueue, worker, results, outcome, holding, keys, items, report>>

\* variant: the newest sample is taken first
PercentReporter_newest_first ==
    /\ Running
    /\ complete # <<>>
    /\ reported' = Append(reported, complete[Len(complete)])
    /\ complete' = SubSeq(complete, 1, Len(complete) - 1)
    /\ UNCHANGED <<lines, submitted, takenAtDone,
                   letters, words, processes, pc, x, interruptedAt, samples, taskqueue,
                   worker, results, outcome, holding, keys, items, top, lastPoll, report>>

\* one round of percent_reporter: complete.get() blocks until a sample is there
PercentReporter ==
    /\ Running
    /\ complete # <<>>
    /\ reported' = Append(reported, Head(complete))
    /\ complete' = Tail(complete)
    /\ UNCHANGED <<lines, submitted, takenAtDone,
                   letters, words, processes, pc, x, interruptedAt, samples, taskqueue,
                   worker, results, outcome, holding, keys, items, top, lastPoll, report>>

----------------------------------------------------------------------------
Threads ==
    \/ DistributorPut
    \/ DistributorMap
    \/ PoolClose
    \/ PollResults
    \/ PollComplete
    \/ PoolTerminate
    \/ FinalReport
    \/ \E p \in DOMAIN worker : WorkerTake(p)
    \/ \E p \in DOMAIN worker : WorkerEval(p)
    \/ CollectorGet
    \/ CollectorInsert
    \/ TopWords
    \/ PercentReporter

Next == Threads \/ Interrupt

Spec == Init /\ [][Next]_vars

----------------------------------------------------------------------------
(* Other specifications *)

\* No interrupt arrives, and every thread that can take a step eventually does
\* (the threads only sleep for 10 ms between rounds)
Fairness ==
    /\ WF_vars(DistributorPut \/ DistributorMap \/ PoolClose \/ PollResults
               \/ PollComplete \/ PoolTerminate \/ FinalReport)
    /\ \A p \in 1..MaxPool : WF_vars(p \in DOMAIN worker /\ (WorkerTake(p) \/ WorkerEval(p)))
    /\ WF_vars(CollectorGet \/ CollectorInsert)
    /\ WF_vars(TopWords)
    /\ WF_vars(PercentReporter)

\* The fair runs are explored for the small inputs with every pool size and
\* for the large input with one worker process
TwoMatchInput ==
    [rack |-> <<"c", "a", "t">>,
     lines |-> << <<"a", "t", NL>>, <<"t", "a", NL>>, <<"t", "t", NL>> >>]

InitLive ==
    \E in \in Inputs \cup {TwoMatchInput}, nproc \in 1..MaxPool :
        /\ in = BigInput => nproc = 1
        /\ \E sw \in SortedByLen(LoadWords(in.lines, in.rack)) :
              InitWith(in.lines, in.rack, sw, nproc)

LiveSpec == InitLive /\ [][Threads]_vars /\ Fairness

\* A call of evaluator may raise
NextFault == Next \/ \E p \in DOMAIN worker : WorkerRaise(p)

SpecFault == Init /\ [][NextFault]_vars

\* One call of evaluator: a one-word dictionary and one worker, so the call
\* gets a list of its own holding all the letters of the rack
Alphabet == {"a", "t"}

SeqsUpTo(n) == UNION {[1..k -> Alphabet] : k \in 0..n}

InitMatcher ==
    \E rack \in SeqsUpTo(MaxRackLen) \ {<<>>}, w \in SeqsUpTo(MaxWordLen) :
        InitWith(<<w \o <<NL>> >>, rack, <<w>>, 1)

NextMatcher ==
    \/ DistributorPut
    \/ DistributorMap
    \/ \E p \in DOMAIN worker : WorkerTake(p)
    \/ \E p \in DOMAIN worker : WorkerEval(p)

SpecMatcher == InitMatcher /\ [][NextMatcher]_vars

\* The submission loop alone, over dictionaries of every size up to MaxWords
\* (the words a, aa, aaa, ... and a rack long enough for all of them)
RepeatA(n) == [i \in 1..n |-> "a"]

InitProgress ==
    \E n \in 0..MaxWords :
        InitWith([k \in 1..n |-> RepeatA(k) \o <<NL>>], RepeatA(n + 1),
                 [k \in 1..n |-> RepeatA(k)], 1)

NextProgress ==
    \/ DistributorPut
    \/ DistributorMap
    \/ PoolClose
    \/ PercentReporter

SpecProgress == InitProgress /\ [][NextProgress]_vars

----------------------------------------------------------------------------
(* Properties *)

\* for every distinct character c of w, count(c, w) <= count(c, r)
SubMultiset(w, r) == \A c \in SetOf(w) : Count(c, w) <= Count(c, r)

Spellable == {w \in SetOf(words) : SubMultiset(w, letters)}

Evaluated(w) == outcome[w] \in {"match", "nomatch"}

\* C1: a call of evaluator on a word with a list of its own holding the
\* rack's letters returns the word and puts it on the result queue exactly
\* when no character occurs more often in the word than in the rack;
\* otherwise it returns None and puts nothing.
C1_SubMultisetMatch ==
    \A w \in SetOf(words) :
        /\ Evaluated(w) =>
              /\ (outcome[w] = "match") <=> SubMultiset(w, letters)
              /\ (w \in SetOf(results)) <=> SubMultiset(w, letters)
        /\ ~Evaluated(w) => results = <<>>

\* a word is rejected although each of its characters is in the rack
C1_Witness ==
    \E w \in SetOf(words) :
        /\ outcome[w] = "nomatch"
        /\ SetOf(w) \subseteq SetOf(letters)
        /\ results = <<>>

\* C2: the result of every evaluator call of a run is the result of
\* evaluating its word alone against the whole rack.
C2_CallsIndependent ==
    \A w \in SetOf(words) :
        Evaluated(w) => ((outcome[w] = "match") <=> evaluator(w, letters).matched)

\* C3: when the program finishes without an interrupt, the final report
\* holds every dictionary word that can be spelled from the rack.
C3_ReportComplete ==
    (pc = "done" /\ interruptedAt = "none") => Spellable \subseteq SetOf(report)

\* C4: at every moment the items of best_words, as the other threads read
\* them, are in non-decreasing order of length.
C4_SortInvariant ==
    \A i, j \in DOMAIN items : i < j => key(items[i]) <= key(items[j])

\* the collector is between its two list inserts, about to insert before
\* items already there
C4_Witness ==
    /\ holding.full
    /\ Len(items) >= 2
    /\ holding.i < Len(items)
    /\ key(items[1]) < key(items[Len(items)])

\* nothing is left that could put another word into best_words: no chunk is
\* queued or running, both queues are empty and the collector holds no item
NothingPending ==
    /\ taskqueue = <<>>
    /\ \A p \in DOMAIN worker : ~worker[p].busy
    /\ results = <<>>
    /\ complete = <<>>
    /\ ~holding.full

\* C5: with fewer than two words ever collected the program still leaves the
\* completion poll: the main thread is never in the poll loop with its exit
\* condition false and nothing left that could make it true.
C5_SmallDictionaryCompletes ==
    ~(pc = "poll" /\ Len(items) < 2 /\ NothingPending)

\* the same as a property of the fair runs without interrupt
C5_EventuallyDone ==
    (Cardinality(Spellable) < 2) ~> (pc = "done")

\* C6: an interrupt that arrives during the submission loop or during the
\* completion poll takes the main thread to the shutdown path (pool.terminate
\* and the final report), never out of the program without a report.
C6_InterruptStillReports ==
    interruptedAt \in {"RUNNING", "COMPLETING"} => pc \in {"terminate", "report", "done"}

\* C7: a round of top_words over a non-empty collection reports exactly when
\* the set of the last TopN items differs from the set last reported; a
\* report is never empty and never repeats the set of the one before it.
C7_IdempotentReporting ==
    lastPoll.polled =>
        /\ lastPoll.emitted <=> (SetOf(lastPoll.test) # SetOf(lastPoll.prev))
        /\ lastPoll.test # <<>>
        /\ lastPoll.emitted => SetOf(top) # SetOf(lastPoll.prev)
        /\ SetOf(top) = SetOf(lastPoll.test)

\* a round is suppressed while a full top list stands and the collection
\* holds more items than the list shows
C7_Witness ==
    /\ lastPoll.polled
    /\ ~lastPoll.emitted
    /\ Len(lastPoll.prev) = TopN
    /\ Len(items) > TopN

\* C8: the progress samples, in the order they are put on the queue, never
\* decrease, and each lies in [0, 100).
C8_ProgressMonotone ==
    /\ \A i \in DOMAIN samples :
          /\ samples[i].den > 0
          /\ 0 <= samples[i].num
          /\ samples[i].num < 100 * samples[i].den
    /\ \A i, j \in DOMAIN samples :
          i < j => samples[i].num * samples[j].den <= samples[j].num * samples[i].den

\* every block of a dictionary of a whole number of blocks has been announced
C8_Witness ==
    /\ Len(samples) >= 2
    /\ Len(words) = Len(samples) * block_size
    /\ samples[Len(samples)].num > 0

\* C9: the final report holds the items of best_words, each once, longest
\* first.
C9_FinalReportDescending ==
    pc = "done" =>
        /\ SetOf(report) = SetOf(items)
        /\ Len(report) = Len(items)
        /\ \A w \in SetOf(items) : Count(w, report) = 1
        /\ \A i, j \in DOMAIN report : i < j => Len(report[i]) >= Len(report[j])

\* a report of words of different lengths has been printed
C9_Witness ==
    /\ pc = "done"
    /\ Len(report) >= 2
    /\ Len(report[1]) > Len(report[Len(report)])

PoolDrained ==
    /\ pc \in {"poll", "poll_complete"}
    /\ taskqueue = <<>>
    /\ \A p \in DOMAIN worker : ~worker[p].busy

\* C10: when a call of evaluator raises, every other submitted word is still
\* evaluated: once all blocks are submitted and the pool has nothing left to
\* run, the only words without a result are those whose call raised.
C10_FailureContained ==
    PoolDrained => \A w \in SetOf(words) : outcome[w] # "none"

\* a step of result_collector that completes best_words.insert(item)
InsertStep == holding.full /\ ~holding'.full

\* C11: insert(item) puts the item at a position where every item before it
\* has a strictly smaller key and every item after it has a key at least as
\* large, and leaves the items already there in their order.
C11_InsertLeftmost ==
    [][InsertStep =>
          \E i \in DOMAIN items' :
              /\ items'[i] = holding.item
              /\ ListPop(items', i) = items
              /\ \A j \in 1..(i - 1) : key(items'[j]) < key(holding.item)
              /\ \A j \in (i + 1)..Len(items') : key(items'[j]) >= key(holding.item)]_vars

\* inserts are complete and a word stands between a shorter word and a word
\* of its own length
C11_Witness ==
    /\ ~holding.full
    /\ \E i \in DOMAIN items :
          /\ i - 1 \in DOMAIN items
          /\ i + 1 \in DOMAIN items
          /\ key(items[i - 1]) < key(items[i])
          /\ key(items[i]) = key(items[i + 1])

\* C12 as claimed: an inserted item comes after every item of equal key that
\* was inserted before it.
C12_InsertionOrder ==
    [][InsertStep =>
          \E i \in DOMAIN items' :
              /\ items'[i] = holding.item
              /\ ListPop(items', i) = items
              /\ \A j \in DOMAIN items' :
                    (j # i /\ key(items'[j]) = key(holding.item)) => j < i]_vars

\* C12 as amended: among items of equal key the order is the reverse of the
\* insertion order: an inserted item comes before every item of equal key
\* that was inserted before it, and those keep their order.
C12_ReverseInsertionOrder ==
    [][InsertStep =>
          \E i \in DOMAIN items' :
              /\ items'[i] = holding.item
              /\ ListPop(items', i) = items
              /\ \A j \in DOMAIN items' :
                    (j # i /\ key(items'[j]) = key(holding.item)) => i < j]_vars

\* every spellable word is collected and two of them have the same length
C12_Witness ==
    /\ ~holding.full
    /\ Len(items) = Cardinality(Spellable)
    /\ \E i, j \in DOMAIN items : i < j /\ key(items[i]) = key(items[j])

\* the dictionary of the design: the trimmed, lower-cased words of the lines
\* with 1 < length(word) <= length(rack)
FilteredByWordLength ==
    {lower(strip(lines[i])) :
        i \in {j \in DOMAIN lines :
                  /\ 1 < Len(lower(strip(lines[j])))
                  /\ Len(lower(strip(lines[j]))) <= Len(letters)}}

\* C13: the loaded dictionary is exactly the set of trimmed, lower-cased
\* words of the input lines whose length is above 1 and at most the length
\* of the rack.
C13_DictionaryFilter == SetOf(words) = FilteredByWordLength

\* how often a word is on the result queue, in the collector's hand or in
\* best_words: nothing is ever taken out of best_words, so this is how often
\* it was pushed
Pushed(w) ==
    Count(w, results) + Count(w, items)
        + (IF holding.full /\ holding.item = w THEN 1 ELSE 0)

\* C14: every dictionary word is pushed on the result queue at most once, so
\* best_words never holds a word twice.
C14_MatchAtMostOnce ==
    /\ Len(words) = Cardinality(SetOf(words))
    /\ \A w \in SetOf(words) : Pushed(w) <= 1
    /\ \A i, j \in DOMAIN items : i # j => items[i] # items[j]

\* all blocks are submitted and evaluated and at least three matches are
\* collected
C14_Witness ==
    /\ x >= Len(words)
    /\ \A w \in SetOf(words) : Evaluated(w)
    /\ results = <<>>
    /\ ~holding.full
    /\ Len(items) >= 3

\* concatenation of a sequence of blocks
RECURSIVE Flatten(_)
Flatten(blocks) == IF blocks = <<>> THEN <<>> ELSE Head(blocks) \o Flatten(Tail(blocks))

\* the poll sets done = True (the loop is not left through an interrupt)
DeclaresCompletion ==
    pc = "poll_complete" /\ pc' = "terminate" /\ interruptedAt' = interruptedAt

\* C15: the poll declares completion exactly when it sees at least two
\* entries in best_words, the result queue empty and the progress queue
\* empty, and never before every block has been submitted.
C15_CompletionCondition ==
    /\ [][(pc = "poll" /\ pc' = "poll_complete")
            => (Len(items) >= 2 /\ results = <<>>)]_vars
    /\ [][DeclaresCompletion
            => (Len(items) >= 2 /\ complete = <<>> /\ Flatten(submitted) = words)]_vars
    /\ [][(pc = "poll_complete" /\ pc' = "poll") => complete # <<>>]_vars
    /\ []((pc = "poll" /\ Len(items) >= 2 /\ results = <<>>) => ENABLED <<PollResults>>_vars)
    /\ []((pc = "poll" /\ ENABLED <<PollResults>>_vars) => (Len(items) >= 2 /\ results = <<>>))

\* completion has been declared after two blocks
C15_Witness ==
    /\ pc = "terminate"
    /\ interruptedAt = "none"
    /\ Len(submitted) >= 2
    /\ Len(items) >= 2

\* C16: the submitted blocks are consecutive slices of the sorted dictionary
\* in index order; once the loop is left they cover the dictionary, every
\* block holds block_size words except a last one that may be shorter but is
\* not empty, and no block is submitted for an empty dictionary.
C16_BlocksPartition ==
    /\ Flatten(submitted) = SubSeq(words, 1, Min(x, Len(words)))
    /\ \A b \in DOMAIN submitted :
          /\ Len(submitted[b]) >= 1
          /\ Len(submitted[b]) <= block_size
          /\ b < Len(submitted) => Len(submitted[b]) = block_size
          /\ \A k \in DOMAIN submitted[b] :
                submitted[b][k] = words[(b - 1) * block_size + k]
    /\ pc \notin {"put", "map", "crashed"} => Flatten(submitted) = words
    /\ words = <<>> => submitted = <<>>
    /\ \A w \in SetOf(words) :
          Cardinality({b \in DOMAIN submitted : w \in SetOf(submitted[b])}) <= 1

\* the loop is left after a full block and a shorter last block
C16_Witness ==
    /\ pc = "poll"
    /\ Len(submitted) >= 2
    /\ Len(submitted[1]) = block_size
    /\ Len(submitted[Len(submitted)]) < block_size

\* C17: every block has one progress sample, put on the progress queue
\* before the block is submitted; the loop never waits for the pool; and
\* percent_reporter logs the samples once each, in the order they were put.
C17_OneSamplePerBlock ==
    /\ [](/\ Len(samples) = Len(submitted) + (IF pc = "map" THEN 1 ELSE 0)
                \/ (pc = "crashed" /\ Len(samples) = Len(submitted) + 1)
          /\ \A b \in DOMAIN samples : samples[b] = Sample((b - 1) * block_size, Len(words))
          /\ reported \o complete = samples)
    /\ [][submitted' # submitted
            => (samples' = samples /\ Len(samples) = Len(submitted'))]_vars
    /\ []((pc = "put" /\ x < Len(words)) => ENABLED <<DistributorPut>>_vars)
    /\ [](pc = "map" => ENABLED <<DistributorMap>>_vars)

\* two blocks are submitted and both samples logged before any word is
\* evaluated
C17_Witness ==
    /\ Len(submitted) >= 2
    /\ \A w \in SetOf(words) : outcome[w] = "none"
    /\ reported = samples
    /\ Len(reported) = Len(submitted)

\* C18: every word on the result queue, in the collector's hand or in
\* best_words is a dictionary word that can be spelled from the rack, also
\* when the calls of a chunk use up one letters list between them.
C18_NoFalsePositive ==
    \A w \in SetOf(results) \cup Taken :
        w \in SetOf(words) /\ SubMultiset(w, letters)

\* a call came after another call of its chunk had taken letters it needed,
\* and matches of the run are collected
C18_Witness ==
    /\ \E w \in Spellable : outcome[w] = "nomatch"
    /\ \E p \in DOMAIN worker : worker[p].busy /\ Len(worker[p].letters) < Len(letters)
    /\ items # <<>>

\* C19: every word the collector had taken from the result queue when the
\* poll declared completion is in the final report.
C19_TakenIsReported ==
    (pc = "done" /\ interruptedAt = "none") => takenAtDone \subseteq SetOf(report)

\* C20: without interrupt and under fair scheduling, once two matches are
\* pushed the poll declares completion and the final report is printed,
\* once: it is never printed again or changed.
C20_EventuallyReported ==
    /\ (Cardinality({w \in SetOf(words) : outcome[w] = "match"}) >= 2) ~> (pc = "done")
    /\ [][pc = "done" => (pc' = "done" /\ report' = report)]_vars
    /\ [][report' # report => (pc = "report" /\ pc' = "done")]_vars

\* the report is printed after completion was declared with two or more
\* matches pushed
C20_Witness ==
    /\ pc = "done"
    /\ interruptedAt = "none"
    /\ Cardinality({w \in SetOf(words) : outcome[w] = "match"}) >= 2
    /\ Len(report) >= 2

====
